---- MODULE Spec2Model ----
(***************************************************************************)
(* Model of MESS_2024_Eibl_Etna.py: the script that reads translational    *)
(* (HH channels) and rotational (HJ channels) recordings of station ZR.RS1  *)
(* for six event windows, preprocesses them and writes one six-row         *)
(* seismogram and spectrogram figure per event.                            *)
(*                                                                         *)
(* Times are whole seconds since 2019-01-01T00:00:00 (UTCDateTime keeps a  *)
(* timestamp; its year/month/... attributes are decoded from it).  Sample  *)
(* values are abstracted to the peak of a trace, i.e. the value of largest *)
(* magnitude that Trace.max() returns, with its physical unit.             *)
(***************************************************************************)
EXTENDS Integers, Sequences, FiniteSets, TLC

VARIABLES
    pc,         \* position of the script
    caller,     \* who called read_data: "cell3" or "loop"
    ii,         \* index of the event loop (line 232)
    tstart,     \* module-level tstart (lines 113, 235..256)
    tend,       \* module-level tend
    winTrans,   \* window requested from read() for the HH channels (line 44)
    winRot,     \* window requested from read() for the HJ channels (line 69)
    st_trans,   \* read_data's local st_trans
    st_rot,     \* read_data's local st_rot
    lfilename,  \* read_data's local filename
    stream,     \* module-level stream of the third cell
    st,         \* module-level st of the event loop
    trans_max,  \* module-level trans_max
    rot_max,    \* module-level rot_max
    filename,   \* module-level filename
    fontsize,   \* mpl.rcParams["font.size"]
    fignum,     \* number of figures pyplot has created
    axes,       \* the axes of pyplot's current figure, in creation order
    i,          \* plotting_6C's loop index
    chan,       \* plotting_6C's local chan
    files,      \* names of the PNG files on disk
    saves,      \* number of savefig calls made
    raised      \* the uncaught exception that ended the run, if any

vars == <<pc, caller, ii, tstart, tend, winTrans, winRot, st_trans, st_rot,
          lfilename, stream, st, trans_max, rot_max,
          filename, fontsize, fignum, axes, i, chan, files, saves, raised>>

(***************************************************************************)
(* Bounds of the model.                                                    *)
(***************************************************************************)
\* seconds between two samples of a trace
SampleInterval == 2
\* samples a file holds on either side of the widest window read from it
FileMargin == 2
\* largest magnitude of a peak, in quanta of the trace's unit
MaxAmp == 2

(***************************************************************************)
(* Module constants of the first cell and literals of the script.          *)
(***************************************************************************)
localpath == "figure_output/"
\* str(fmin) of the float 0.5
fminStr == "0.5"
fmax == 20
\* seconds by which the translational read window is widened (lines 39, 40)
Pad == 30
\* font size of matplotlib's defaults and the one plotting_6C sets (line 160)
DefaultFontSize == 10
FigureFontSize == 8
\* range(6) of plotting_6C (line 163) and of the event loop (line 232)
NSlots == 6
NEvents == 6
\* first rotational slot: "if i < 3" (lines 184, 199, 219)
FirstRotSlot == 3

\* values of names that are not bound (yet, or any more)
NoTime == 0 - 1
NoEvent == 0 - 1
NoAmp == [mant |-> 0, exp |-> 0]
NoWindow == [start |-> NoTime, end |-> NoTime]
NoExc == [event |-> NoEvent, exc |-> "none"]
Unassigned == "<unassigned>"

(***************************************************************************)
(* UTCDateTime.                                                            *)
(***************************************************************************)
DaysBefore == <<0, 31, 59, 90, 120, 151, 181, 212, 243, 273, 304, 334, 365>>

\* UTCDateTime(2019, month, day, hour, minute, second)
UTCDateTime(year, month, day, hour, minute, second) ==
    ((DaysBefore[month] + day - 1) * 24 + hour) * 3600 + minute * 60 + second

DayOfYear(t) == t \div 86400
Year(t) == 2019 + (t \div (365 * 86400))
Month(t) == CHOOSE m \in 1..12 :
                DaysBefore[m] <= DayOfYear(t) /\ DayOfYear(t) < DaysBefore[m + 1]
Day(t) == DayOfYear(t) - DaysBefore[Month(t)] + 1
Hour(t) == (t % 86400) \div 3600
Minute(t) == (t % 3600) \div 60
Second(t) == t % 60

(***************************************************************************)
(* The third cell's window and the six windows of the event loop.          *)
(***************************************************************************)
Cell3Start == UTCDateTime(2019, 9, 4, 15, 52, 0)
Cell3End == UTCDateTime(2019, 9, 4, 15, 54, 0)

EventStart(k) ==
    CASE k = 0 -> UTCDateTime(2019, 9, 4, 15, 52, 0)
      [] k = 1 -> UTCDateTime(2019, 9, 17, 18, 40, 30)
      [] k = 2 -> UTCDateTime(2019, 8, 27, 14, 21, 0)
      [] k = 3 -> UTCDateTime(2019, 8, 27, 12, 18, 0)
      [] k = 4 -> UTCDateTime(2019, 9, 8, 12, 18, 0)
      [] k = 5 -> UTCDateTime(2019, 9, 9, 12, 18, 0)

EventEnd(k) ==
    CASE k \in {0, 1, 4, 5} -> EventStart(k) + 120
      [] k \in {2, 3} -> EventStart(k) + 90

(***************************************************************************)
(* The file name read_data builds (line 36) and the one savefig writes.    *)
(***************************************************************************)
FilenameNoDay(t) ==
    localpath \o "seismogram_" \o ToString(Year(t)) \o "_" \o ToString(Month(t))
        \o "_h" \o ToString(Hour(t)) \o "-" \o ToString(Minute(t))
        \o "-" \o ToString(Second(t)) \o "_f" \o fminStr \o "-" \o ToString(fmax)

Filename(t) ==
    localpath \o "seismogram_" \o ToString(Year(t)) \o "_" \o ToString(Month(t))
        \o "_" \o ToString(Day(t))
        \o "_h" \o ToString(Hour(t)) \o "-" \o ToString(Minute(t))
        \o "-" \o ToString(Second(t)) \o "_f" \o fminStr \o "-" \o ToString(fmax)

PngName(f) == f \o ".png"

(***************************************************************************)
(* Traces.  A trace is a record                                            *)
(*   channel, starttime, npts: the header (stats) of the trace; its        *)
(*                    sampling interval is SampleInterval                  *)
(*   peak, exp, unit: the sample of largest magnitude is peak * 10^exp     *)
(*                    in the given unit                                    *)
(*   hist:            the processing calls applied to the trace, in order  *)
(***************************************************************************)
Abs(x) == IF x < 0 THEN -x ELSE x

Max(x, y) == IF x < y THEN y ELSE x

\* obspy's round_away of the quotient n / d, d > 0: halves go away from zero
RoundAway(n, d) ==
    IF n >= 0 THEN (2 * n + d) \div (2 * d)
              ELSE -((2 * (-n) + d) \div (2 * d))

EndTime(tr) == tr.starttime + (tr.npts - 1) * SampleInterval

\* Trace._ltrim(t) with the defaults pad=False, nearest_sample=True
Ltrim(tr, t) ==
    LET delta == RoundAway(t - tr.starttime, SampleInterval)
    IN  IF delta <= 0 THEN tr
        ELSE [tr EXCEPT !.starttime = @ + delta * SampleInterval,
                        !.npts = Max(0, @ - delta)]

\* Trace._rtrim(t) with the defaults pad=False, nearest_sample=True
Rtrim(tr, t) ==
    LET delta == RoundAway(t - tr.starttime, SampleInterval) - tr.npts + 1
    IN  IF delta >= 0 THEN tr
        ELSE [tr EXCEPT !.npts = Max(0, @ + delta)]

\* Trace.trim(s, e)
TraceTrim(tr, s, e) == Rtrim(Ltrim(tr, s), e)

Applied(tr, op) == [tr EXCEPT !.hist = Append(@, op)]

NonEmpty(s) == SelectSeq(s, LAMBDA tr : tr.npts > 0)

(***************************************************************************)
(* Streams are sequences of traces.                                        *)
(***************************************************************************)
\* Stream.trim(s, e): the window is first moved onto a sample of the first
\* trace, every trace is trimmed to it, and emptied traces are dropped
StreamTrimNone(s, ts, te) == [k \in 1..Len(s) |-> Applied(s[k], "trim")]

StreamTrim(s, ts, te) ==
    IF s = <<>> THEN s
    ELSE LET tr0 == s[1]
             s1 == tr0.starttime
                     + RoundAway(ts - tr0.starttime, SampleInterval) * SampleInterval
             e1 == EndTime(tr0)
                     + RoundAway(te - EndTime(tr0), SampleInterval) * SampleInterval
         IN  NonEmpty([k \in 1..Len(s) |->
                         Applied(TraceTrim(s[k], s1, e1), "trim")])

\* channel codes in the order Python compares strings (digits before letters)
ChannelOrder ==
    <<"HH1", "HH2", "HHE", "HHN", "HHU", "HHV", "HHW", "HHZ",
      "HJ1", "HJ2", "HJ3", "HJE", "HJN", "HJU", "HJV", "HJW", "HJZ">>

ChannelRank(c) == CHOOSE k \in 1..Len(ChannelOrder) : ChannelOrder[k] = c

\* the default keys of Stream.sort(): network, station and location are the
\* same for every trace read, then channel, starttime, endtime
SortsBefore(a, b) ==
    \/ ChannelRank(a.channel) < ChannelRank(b.channel)
    \/ /\ a.channel = b.channel
       /\ \/ a.starttime < b.starttime
          \/ a.starttime = b.starttime /\ EndTime(a) < EndTime(b)

RECURSIVE Insert(_, _)
Insert(s, tr) ==
    IF s = <<>> THEN <<tr>>
    ELSE IF SortsBefore(tr, s[Len(s)])
         THEN Append(Insert(SubSeq(s, 1, Len(s) - 1), tr), s[Len(s)])
         ELSE Append(s, tr)

RECURSIVE Sorted(_)
Sorted(s) ==
    IF s = <<>> THEN s
    ELSE Insert(Sorted(SubSeq(s, 1, Len(s) - 1)), s[Len(s)])

\* Stream.sort()
StreamSort(s) ==
    LET t == Sorted(s) IN [k \in 1..Len(t) |-> Applied(t[k], "sort")]

\* a Stream method that changes the samples of every trace: the samples it
\* leaves are whatever the data make them, so each trace gets a peak pk[k]
Processed(s, op, pk) ==
    [k \in 1..Len(s) |-> [Applied(s[k], op) EXCEPT !.peak = pk[k]]]

RECURSIVE ProcessedAll(_, _, _)
ProcessedAll(s, ops, pk) ==
    IF ops = <<>> THEN s
    ELSE ProcessedAll(Processed(s, Head(ops), pk), Tail(ops), pk)

(***************************************************************************)
(* What read() can return.  A file holds one trace per channel, or two     *)
(* when the recording has a gap; its samples lie phase seconds off the     *)
(* whole multiples of the sampling interval counted from the window start. *)
(* An input profile In gives the sets the reads and the sample values are  *)
(* drawn from:                                                             *)
(*   In.trans, In.rot: sequences of <<channel, part>> a glob can deliver   *)
(*   In.phases, In.rotphases: pairs <<phase of the first trace, skew of   *)
(*                     each further trace>> of the two sensors             *)
(*   In.peaks:         peaks of the first trace and of the other traces    *)
(***************************************************************************)
Samples(seconds) == seconds \div SampleInterval

FileTrace(channel, part, w, phase, unit) ==
    LET first == w.start - FileMargin * SampleInterval + phase
        whole == Samples(w.end - w.start) + 2 * FileMargin + 2
        half  == FileMargin + Samples((w.end - w.start) \div 2) + 1
    IN  [channel |-> channel,
         starttime |-> IF part = "tail" THEN first + (half + 1) * SampleInterval
                                        ELSE first,
         npts |-> CASE part = "all" -> whole
                    [] part = "head" -> half
                    [] part = "tail" -> whole - half - 1,
         peak |-> 1, exp |-> 0, unit |-> unit, hist |-> <<>>]

\* read(pattern, starttime=w.start, endtime=w.end): every trace of the files
\* cut to the window by _ltrim and _rtrim, empty traces dropped
Read(shape, w, ph, pk, unit) ==
    NonEmpty([k \in 1..Len(shape) |->
        [Rtrim(Ltrim(FileTrace(shape[k][1], shape[k][2], w,
                               (ph[1] + ph[2] * (k - 1)) % SampleInterval, unit),
                     w.start),
               w.end)
         EXCEPT !.peak = pk[k]]])

PeakPatterns(In) ==
    {[k \in 1..4 |-> IF k = 1 THEN a ELSE b] : a \in In.peaks, b \in In.peaks}

(***************************************************************************)
(* The figure of pyplot.                                                   *)
(***************************************************************************)
Axes(kind, index) ==
    [kind |-> kind, index |-> index, rect |-> "", slot |-> 0 - 1, channel |-> "",
     peak |-> 0, exp |-> 0, ylim |-> NoAmp, ylabel |-> "", cscale |-> "",
     tref |-> NoTime, xlabel |-> FALSE, ticklabels |-> TRUE, cblabel |-> "",
     font |-> fontsize, fig |-> fignum]

\* plt.subplot(6, 2, n): the axes of that position, created unless the current
\* figure has it already
HasSubplot(axs, n) == \E k \in 1..Len(axs) : axs[k].kind # "cax" /\ axs[k].index = n

WithSubplot(axs, a) ==
    IF HasSubplot(axs, a.index)
    THEN [k \in 1..Len(axs) |->
             IF axs[k].kind # "cax" /\ axs[k].index = a.index THEN a ELSE axs[k]]
    ELSE Append(axs, a)

\* the chain of ifs that sets chan (lines 170 to 181); prev is chan before it
Lookup(c, prev) ==
    CASE c \in {"HHE", "HHN", "HHZ"} -> c \o " (m/s)"
      [] c \in {"HJ1", "HJE"} -> " HJE (rad)"
      [] c \in {"HJ2", "HJN"} -> " HJN (rad)"
      [] c \in {"HJ3", "HJZ"} -> " HJZ (rad)"
      [] OTHER -> prev

\* the tstart plotting_6C hands to plot_spectrogram (line 202): the global one
SpectrogramTstartCell3 == Cell3Start

SpectrogramTstart == tstart

\* np.abs(tr.max())
AbsMax(tr) == [mant |-> Abs(tr.peak), exp |-> tr.exp]

(***************************************************************************)
(* The end of the process: its memory is gone, the files stay.             *)
(***************************************************************************)
MemoryGone ==
    /\ caller' = "none" /\ ii' = NoEvent /\ tstart' = NoTime /\ tend' = NoTime
    /\ winTrans' = NoWindow /\ winRot' = NoWindow
    /\ st_trans' = <<>> /\ st_rot' = <<>> /\ lfilename' = ""
    /\ stream' = <<>> /\ st' = <<>> /\ trans_max' = NoAmp /\ rot_max' = NoAmp
    /\ filename' = "" /\ fontsize' = DefaultFontSize /\ fignum' = 0
    /\ axes' = <<>> /\ i' = 0 /\ chan' = Unassigned

\* an exception nothing catches: the interpreter prints it and exits
RaiseCaught(exc) ==
    /\ raised' = [event |-> ii, exc |-> exc]
    /\ pc' = "loop"
    /\ ii' = ii + 1
    /\ UNCHANGED <<caller, tstart, tend, winTrans, winRot, st_trans, st_rot,
                   lfilename, stream, st, trans_max, rot_max, filename,
                   fontsize, fignum, axes, i, chan, files, saves>>

Raise(exc) ==
    /\ raised' = [event |-> ii, exc |-> exc]
    /\ pc' = "aborted"
    /\ MemoryGone
    /\ UNCHANGED <<files, saves>>

(***************************************************************************)
(* Initial state: the interpreter has run the first cell.                  *)
(***************************************************************************)
Init ==
    /\ pc = "cell3"
    /\ caller = "none" /\ ii = NoEvent /\ tstart = NoTime /\ tend = NoTime
    /\ winTrans = NoWindow /\ winRot = NoWindow
    /\ st_trans = <<>> /\ st_rot = <<>> /\ lfilename = ""
    /\ stream = <<>> /\ st = <<>> /\ trans_max = NoAmp /\ rot_max = NoAmp
    /\ filename = "" /\ fontsize = DefaultFontSize /\ fignum = 0
    /\ axes = <<>> /\ i = 0 /\ chan = Unassigned
    /\ files = {} /\ saves = 0 /\ raised = NoExc

(***************************************************************************)
(* Third cell, lines 113 to 115: the window is set and read_data called.   *)
(***************************************************************************)
Cell3Call ==
    /\ pc = "cell3"
    /\ tstart' = Cell3Start
    /\ tend' = Cell3End
    /\ caller' = "cell3"
    /\ pc' = "read_trans"
    /\ UNCHANGED <<ii, winTrans, winRot, st_trans, st_rot, lfilename, stream, st,
                   trans_max, rot_max, filename, fontsize, fignum, axes, i, chan,
                   files, saves, raised>>

(***************************************************************************)
(* read_data, lines 36 to 47: file name, widened window, translational read*)
(***************************************************************************)
ReadTrans(In) ==
    /\ pc = "read_trans"
    /\ lfilename' = Filename(tstart)
    /\ winTrans' = [start |-> tstart - Pad, end |-> tend + Pad]
    /\ \E shape \in In.trans, ph \in In.phases, pk \in PeakPatterns(In) :
          st_trans' = Read(shape, winTrans', ph, pk, "counts")
    /\ pc' = "pre_trans"
    /\ UNCHANGED <<caller, ii, tstart, tend, winRot, st_rot, stream, st, trans_max,
                   rot_max, filename, fontsize, fignum, axes, i, chan, files,
                   saves, raised>>

\* lines 48 to 51
PreprocTrans(In) ==
    /\ pc = "pre_trans"
    /\ \E pk \in PeakPatterns(In) :
          st_trans' = ProcessedAll(st_trans,
                                   <<"demean", "linear", "taper", "taper">>, pk)
    /\ pc' = "response"
    /\ UNCHANGED <<caller, ii, tstart, tend, winTrans, winRot, st_rot, lfilename,
                   stream, st, trans_max, rot_max, filename, fontsize, fignum,
                   axes, i, chan, files, saves, raised>>

\* lines 54 to 57: the counts become ground velocity
RemoveResponse(In) ==
    /\ pc = "response"
    /\ \E pk \in PeakPatterns(In) :
          st_trans' = [k \in 1..Len(st_trans) |->
                          [Applied(st_trans[k], "remove_response")
                           EXCEPT !.peak = pk[k], !.unit = "m/s"]]
    /\ pc' = "post_trans"
    /\ UNCHANGED <<caller, ii, tstart, tend, winTrans, winRot, st_rot, lfilename,
                   stream, st, trans_max, rot_max, filename, fontsize, fignum,
                   axes, i, chan, files, saves, raised>>

\* lines 60 to 65
PostprocTrans(In) ==
    /\ pc = "post_trans"
    /\ \E pk \in PeakPatterns(In) :
          st_trans' = StreamSort(StreamTrim(
                          ProcessedAll(st_trans,
                                       <<"demean", "linear", "taper", "bandpass">>,
                                       pk),
                          tstart, tend))
    /\ pc' = "read_rot"
    /\ UNCHANGED <<caller, ii, tstart, tend, winTrans, winRot, st_rot, lfilename,
                   stream, st, trans_max, rot_max, filename, fontsize, fignum,
                   axes, i, chan, files, saves, raised>>

\* lines 68 to 72
ReadRot(In) ==
    /\ pc = "read_rot"
    /\ winRot' = [start |-> tstart, end |-> tend]
    /\ \E shape \in In.rot, ph \in In.rotphases, pk \in PeakPatterns(In) :
          st_rot' = Read(shape, winRot', ph, pk, "nrad/s")
    /\ pc' = "pre_rot"
    /\ UNCHANGED <<caller, ii, tstart, tend, winTrans, st_trans, lfilename, stream,
                   st, trans_max, rot_max, filename, fontsize, fignum, axes, i,
                   chan, files, saves, raised>>

\* lines 73 to 82
RotFilterTrimSortSkipped(s, pk) ==
    ProcessedAll(s, <<"demean", "linear", "taper", "taper",
                      "demean", "linear", "taper">>, pk)

RotFilterTrimSort(s, pk) ==
    StreamSort(StreamTrim(
        ProcessedAll(s, <<"demean", "linear", "taper", "taper",
                          "demean", "linear", "taper", "bandpass">>, pk),
        tstart, tend))

PreprocRot(In) ==
    /\ pc = "pre_rot"
    /\ \E pk \in PeakPatterns(In) : st_rot' = RotFilterTrimSort(st_rot, pk)
    /\ pc' = "convert_rot"
    /\ UNCHANGED <<caller, ii, tstart, tend, winTrans, winRot, st_trans, lfilename,
                   stream, st, trans_max, rot_max, filename, fontsize, fignum,
                   axes, i, chan, files, saves, raised>>

\* lines 86 to 88: st_rot[0], st_rot[1], st_rot[2] times 1e-9
ConvertRot ==
    /\ pc = "convert_rot"
    /\ IF Len(st_rot) < 3
       THEN Raise("IndexError")
       ELSE /\ st_rot' = [k \in 1..Len(st_rot) |->
                             IF k <= 3
                             THEN [Applied(st_rot[k], "scale")
                                   EXCEPT !.exp = @ - 9, !.unit = "rad/s"]
                             ELSE st_rot[k]]
            /\ pc' = "integrate"
            /\ UNCHANGED <<caller, ii, tstart, tend, winTrans, winRot, st_trans,
                           lfilename, stream, st, trans_max, rot_max, filename,
                           fontsize, fignum, axes, i, chan, files, saves, raised>>

\* line 91: a rate becomes an angle
IntegrateRot(In) ==
    /\ pc = "integrate"
    /\ \E pk \in PeakPatterns(In) :
          st_rot' = [k \in 1..Len(st_rot) |->
                        [Applied(st_rot[k], "integrate")
                         EXCEPT !.peak = pk[k],
                                !.unit = IF @ = "rad/s" THEN "rad" ELSE "nrad"]]
    /\ pc' = "return"
    /\ UNCHANGED <<caller, ii, tstart, tend, winTrans, winRot, st_trans, lfilename,
                   stream, st, trans_max, rot_max, filename, fontsize, fignum,
                   axes, i, chan, files, saves, raised>>

\* lines 94 to 99, and the assignment of the result at line 115 or line 260;
\* the locals of read_data end with the call
ReturnData ==
    /\ pc = "return"
    /\ IF st_trans = <<>> \/ st_rot = <<>>
       THEN Raise("IndexError")
       ELSE /\ IF caller = "cell3"
               THEN /\ stream' = st_trans \o st_rot
                    /\ pc' = "cell3_plot"
                    /\ UNCHANGED <<st, trans_max, rot_max, filename>>
               ELSE /\ st' = st_trans \o st_rot
                    /\ trans_max' = AbsMax(st_trans[1])
                    /\ rot_max' = AbsMax(st_rot[1])
                    /\ filename' = lfilename
                    /\ pc' = "fig_init"
                    /\ UNCHANGED stream
            /\ st_trans' = <<>> /\ st_rot' = <<>> /\ lfilename' = ""
            /\ winTrans' = NoWindow /\ winRot' = NoWindow
            /\ caller' = "none"
            /\ UNCHANGED <<ii, tstart, tend, fontsize, fignum, axes, i, chan,
                           files, saves, raised>>

(***************************************************************************)
(* Third cell, lines 117 to 120, and fourth cell, lines 150 to 153: a      *)
(* figure is made, stream[0] drawn, the figure shown and closed.           *)
(***************************************************************************)
Cell3Plot ==
    /\ pc = "cell3_plot"
    /\ fignum' = fignum + 1
    /\ axes' = <<>>
    /\ pc' = "cell4"
    /\ UNCHANGED <<caller, ii, tstart, tend, winTrans, winRot, st_trans, st_rot,
                   lfilename, stream, st, trans_max, rot_max, filename, fontsize,
                   i, chan, files, saves, raised>>

Cell4Plot ==
    /\ pc = "cell4"
    /\ fignum' = fignum + 1
    /\ axes' = <<>>
    /\ pc' = "loop"
    /\ ii' = 0
    /\ UNCHANGED <<caller, tstart, tend, winTrans, winRot, st_trans, st_rot,
                   lfilename, stream, st, trans_max, rot_max, filename, fontsize,
                   i, chan, files, saves, raised>>

(***************************************************************************)
(* The event loop, lines 232 to 260: the next window is assigned and       *)
(* read_data called; after the sixth event the script ends.                *)
(***************************************************************************)
EventLoop ==
    /\ pc = "loop"
    /\ IF ii < NEvents
       THEN /\ tstart' = EventStart(ii)
            /\ tend' = EventEnd(ii)
            /\ caller' = "loop"
            /\ pc' = "read_trans"
            /\ UNCHANGED <<ii, winTrans, winRot, st_trans, st_rot, lfilename,
                           stream, st, trans_max, rot_max, filename, fontsize,
                           fignum, axes, i, chan, files, saves, raised>>
       ELSE /\ pc' = "done"
            /\ MemoryGone
            /\ UNCHANGED <<files, saves, raised>>

(***************************************************************************)
(* plotting_6C, lines 159 to 161: a new current figure, the font size.     *)
(***************************************************************************)
NewFigure == <<>>

FigInit ==
    /\ pc = "fig_init"
    /\ fignum' = fignum + 1
    /\ axes' = NewFigure
    /\ fontsize' = FigureFontSize
    /\ i' = 0
    /\ chan' = Unassigned
    /\ pc' = "slot"
    /\ UNCHANGED <<caller, ii, tstart, tend, winTrans, winRot, st_trans, st_rot,
                   lfilename, stream, st, trans_max, rot_max, filename, files,
                   saves, raised>>

(***************************************************************************)
(* plotting_6C, lines 164 to 224: one pass of the loop over the six slots. *)
(***************************************************************************)
SeismogramAxes(tr, label) ==
    [Axes("seismogram", 1 + 2 * i) EXCEPT
        !.slot = i, !.channel = tr.channel, !.peak = tr.peak, !.exp = tr.exp,
        !.ylim = IF i < FirstRotSlot THEN trans_max ELSE rot_max,
        !.ylabel = label,
        !.xlabel = (i = 5),
        !.ticklabels = ~(i # Len(st) - 1)]

SpectrogramAxes(tr) ==
    [Axes("spectrogram", 2 + 2 * i) EXCEPT
        !.slot = i, !.channel = tr.channel,
        !.cscale = IF i < FirstRotSlot THEN "vmin1..vmax1" ELSE "vmin..vmax",
        !.tref = SpectrogramTstart,
        !.xlabel = (i = 5),
        !.ticklabels = ~(i # Len(st) - 1)]

\* fig.add_axes(rect) makes a new axes each time it is called
ColourbarAxes ==
    [Axes("cax", 0) EXCEPT
        !.slot = i,
        !.rect = IF i < FirstRotSlot THEN "0.927,0.505,0.01,0.37"
                                     ELSE "0.927,0.11,0.01,0.37",
        !.cblabel = IF i < FirstRotSlot THEN "Spectral density ((m/s)^2/Hz)"
                                        ELSE "Spectral density ((rad)^2/Hz)"]

Slot ==
    /\ pc = "slot"
    /\ IF i + 1 > Len(st)
       THEN Raise("IndexError")
       ELSE LET tr == st[i + 1]
                label == Lookup(tr.channel, chan)
            IN  IF label = Unassigned
                THEN Raise("UnboundLocalError")
                ELSE /\ chan' = label
                     /\ axes' = Append(
                                  WithSubplot(
                                    WithSubplot(axes, SeismogramAxes(tr, label)),
                                    SpectrogramAxes(tr)),
                                  ColourbarAxes)
                     /\ i' = i + 1
                     /\ pc' = IF i + 1 < NSlots THEN "slot" ELSE "savefig"
                     /\ UNCHANGED <<caller, ii, tstart, tend, winTrans, winRot,
                                    st_trans, st_rot, lfilename, stream, st,
                                    trans_max, rot_max, filename, fontsize,
                                    fignum, files, saves, raised>>

(***************************************************************************)
(* plotting_6C, lines 227 and 228, and the return to the event loop.       *)
(***************************************************************************)
Savefig ==
    /\ pc = "savefig"
    /\ files' = files \cup {PngName(filename)}
    /\ saves' = saves + 1
    /\ i' = 0
    /\ chan' = Unassigned
    /\ ii' = ii + 1
    /\ pc' = "loop"
    /\ UNCHANGED <<caller, tstart, tend, winTrans, winRot, st_trans, st_rot,
                   lfilename, stream, st, trans_max, rot_max, filename, fontsize,
                   fignum, axes, raised>>

(***************************************************************************)
(* Any call into obspy, scipy or matplotlib can raise: a file is missing   *)
(* or unreadable, the inventory is malformed, the disk is full.            *)
(***************************************************************************)
Fail ==
    /\ pc \notin {"done", "aborted"}
    /\ Raise("Exception")

(***************************************************************************)
(* Specifications, one per family of inputs.                               *)
(***************************************************************************)
NextOver(In) ==
    \/ Cell3Call
    \/ ReadTrans(In)
    \/ PreprocTrans(In)
    \/ RemoveResponse(In)
    \/ PostprocTrans(In)
    \/ ReadRot(In)
    \/ PreprocRot(In)
    \/ ConvertRot
    \/ IntegrateRot(In)
    \/ ReturnData
    \/ Cell3Plot
    \/ Cell4Plot
    \/ EventLoop
    \/ FigInit
    \/ Slot
    \/ Savefig
    \/ Fail

\* what the two globs deliver: the three files in any order the directory
\* lists them, other orientation codes, a missing file, a recording with a gap
Channels(codes, parts) == [k \in 1..Len(codes) |-> <<codes[k], parts[k]>>]

TransShapes ==
    { Channels(<<"HHZ", "HHE", "HHN">>, <<"all", "all", "all">>),
      Channels(<<"HH1", "HH2", "HHZ">>, <<"all", "all", "all">>),
      Channels(<<"HHN", "HHZ">>, <<"all", "all">>),
      Channels(<<"HHE", "HHN", "HHZ", "HHZ">>, <<"all", "all", "tail", "head">>) }

RotShapes ==
    { Channels(<<"HJ3", "HJ1", "HJ2">>, <<"all", "all", "all">>),
      Channels(<<"HJU", "HJV", "HJW">>, <<"all", "all", "all">>),
      Channels(<<"HJE", "HJN">>, <<"all", "all">>),
      Channels(<<"HJE", "HJE", "HJN", "HJZ">>, <<"tail", "head", "all", "all">>) }

\* the shape of the streams varies
Shapes ==
    [trans |-> TransShapes, rot |-> RotShapes,
     phases |-> {<<0, 0>>}, rotphases |-> {<<0, 0>>}, peaks |-> {1}]

\* the sample values vary
Amplitudes ==
    [trans |-> {Channels(<<"HHE", "HHN", "HHZ">>, <<"all", "all", "all">>)},
     rot |-> {Channels(<<"HJE", "HJN", "HJZ">>, <<"all", "all", "all">>)},
     phases |-> {<<0, 0>>}, rotphases |-> {<<0, 0>>},
     peaks |-> {1, -MaxAmp}]

\* the sample times vary
Timing ==
    [trans |-> {Channels(<<"HHE", "HHN", "HHZ">>, <<"all", "all", "all">>)},
     rot |-> {Channels(<<"HJE", "HJN", "HJZ">>, <<"all", "all", "all">>)},
     phases |-> {<<p, s>> : p \in 0..(SampleInterval - 1), s \in {0, 1}},
     rotphases |-> {<<p, 0>> : p \in 0..(SampleInterval - 1)},
     peaks |-> {1}]

Spec == Init /\ [][NextOver(Shapes)]_vars

SpecAmp == Init /\ [][NextOver(Amplitudes)]_vars

SpecTime == Init /\ [][NextOver(Timing)]_vars

(***************************************************************************)
(* Properties.                                                             *)
(***************************************************************************)
AxesOfKind(kinds) == {k \in 1..Len(axes) : axes[k].kind \in kinds}

Panels == AxesOfKind({"seismogram", "spectrogram"})

\* plotting_6C has drawn all six rows of the figure of event ii
FigureComplete == pc = "savefig"

\* read_data has returned the stream of event ii to the event loop
StreamReturned == pc = "fig_init"

IsTranslational(c) == c \in {"HH1", "HH2", "HHE", "HHN", "HHU", "HHV", "HHW", "HHZ"}

EventPng(k) == PngName(Filename(EventStart(k)))

Has(h, op) == \E k \in 1..Len(h) : h[k] = op

\* every op of the first kind comes before every op of the second
AllBefore(h, first, then) ==
    \A x, y \in 1..Len(h) : h[x] = first /\ h[y] = then => x < y

\* C1: one call of plotting_6C leaves 12 subplot axes and exactly 2 colour-bar
\* axes in the figure it saves.
C1_TwelveSubplotsTwoColourbarAxes ==
    FigureComplete =>
        /\ Cardinality(Panels) = 12
        /\ Cardinality(AxesOfKind({"cax"})) = 2

\* C2, as claimed: in every trace read_data returns, detrend and taper come
\* first, then the response removal (translational) or the scaling by 1e-9 and
\* the integration (rotational), and the bandpass filter and the trim only
\* after those.
C2_FilterAndTrimAfterConversion ==
    StreamReturned =>
        \A k \in 1..Len(st) :
            LET h == st[k].hist
            IN  /\ Has(h, "bandpass") /\ Has(h, "trim")
                /\ \A core \in {"remove_response", "scale", "integrate"} :
                      /\ AllBefore(h, core, "bandpass")
                      /\ AllBefore(h, core, "trim")

\* C2, amended: detrend and taper come first; a translational trace is then
\* deconvolved, filtered and trimmed, in this order; a rotational trace is
\* filtered and trimmed first, and scaled (the first three rotational traces)
\* and integrated only after that.
C2_PipelineOrder ==
    StreamReturned =>
        \A k \in 1..Len(st) :
            LET h == st[k].hist
            IN  /\ Len(h) >= 4
                /\ SubSeq(h, 1, 4) = <<"demean", "linear", "taper", "taper">>
                /\ Has(h, "bandpass") /\ Has(h, "trim")
                /\ AllBefore(h, "bandpass", "trim")
                /\ IF IsTranslational(st[k].channel)
                   THEN /\ Has(h, "remove_response")
                        /\ AllBefore(h, "remove_response", "bandpass")
                        /\ ~Has(h, "scale") /\ ~Has(h, "integrate")
                   ELSE /\ Has(h, "integrate")
                        /\ AllBefore(h, "trim", "integrate")
                        /\ AllBefore(h, "trim", "scale")
                        /\ AllBefore(h, "scale", "integrate")
                        /\ ~Has(h, "remove_response")

\* a stream with scaled and integrated rotational traces has been returned
C2_Witness ==
    /\ StreamReturned
    /\ \E k \in 1..Len(st) : Has(st[k].hist, "scale") /\ Has(st[k].hist, "integrate")
    /\ \E k \in 1..Len(st) : Has(st[k].hist, "remove_response")

\* C3: no sample of a channel drawn in slots 0..2 lies outside
\* [-trans_max, trans_max], and none in slots 3..5 outside [-rot_max, rot_max].
C3_SamplesWithinLimits ==
    FigureComplete =>
        \A k \in AxesOfKind({"seismogram"}) :
            /\ axes[k].exp = axes[k].ylim.exp
            /\ Abs(axes[k].peak) <= axes[k].ylim.mant

\* C4: every savefig call writes a file of its own, and a complete run has
\* made six of them, named seismogram_Y_M_D_hH-Min-S_ffmin-fmax.png.
C4_OnePngPerEvent ==
    /\ Cardinality(files) = saves
    /\ files \subseteq {EventPng(k) : k \in 0..(NEvents - 1)}
    /\ pc = "done" =>
          /\ saves = 6
          /\ files = {"figure_output/seismogram_2019_9_4_h15-52-0_f0.5-20.png",
                      "figure_output/seismogram_2019_9_17_h18-40-30_f0.5-20.png",
                      "figure_output/seismogram_2019_8_27_h14-21-0_f0.5-20.png",
                      "figure_output/seismogram_2019_8_27_h12-18-0_f0.5-20.png",
                      "figure_output/seismogram_2019_9_8_h12-18-0_f0.5-20.png",
                      "figure_output/seismogram_2019_9_9_h12-18-0_f0.5-20.png"}

\* the run is complete and all six figures are written
C4_Witness == pc = "done" /\ saves = 6 /\ Cardinality(files) = 6

C6_SlotsHoldTheirGroup ==
    /\ StreamReturned =>
          \A x, y \in 1..Len(st) :
              x < y => /\ IsTranslational(st[y].channel) => IsTranslational(st[x].channel)
                       /\ IsTranslational(st[x].channel) = IsTranslational(st[y].channel)
                              => ChannelRank(st[x].channel) <= ChannelRank(st[y].channel)
    /\ FigureComplete =>
          \A k \in Panels :
              IsTranslational(axes[k].channel) <=> axes[k].slot < 3

\* C7, as claimed: the translational read asks for [tstart-30, tend+30], the
\* rotational read for [tstart, tend], and every trace returned starts no
\* earlier than tstart and ends no later than tend.
C7_TrimmedExactly ==
    /\ winTrans # NoWindow => winTrans = [start |-> tstart - 30, end |-> tend + 30]
    /\ winRot # NoWindow => winRot = [start |-> tstart, end |-> tend]
    /\ StreamReturned =>
          \A k \in 1..Len(st) :
              /\ st[k].npts > 0
              /\ st[k].starttime >= tstart
              /\ EndTime(st[k]) <= tend

\* C7, amended: the windows asked for are as claimed, and every trace returned
\* starts less than one sampling interval before tstart and ends less than one
\* sampling interval after tend (the trim keeps the nearest sample).
C7_TrimmedToNearestSample ==
    /\ winTrans # NoWindow => winTrans = [start |-> tstart - 30, end |-> tend + 30]
    /\ winRot # NoWindow => winRot = [start |-> tstart, end |-> tend]
    /\ StreamReturned =>
          \A k \in 1..Len(st) :
              /\ st[k].npts > 0
              /\ st[k].starttime > tstart - SampleInterval
              /\ EndTime(st[k]) < tend + SampleInterval

\* a returned trace whose last sample lies after tend
C7_Witness ==
    /\ StreamReturned
    /\ \E k \in 1..Len(st) : EndTime(st[k]) > tend /\ IsTranslational(st[k].channel)

\* C8: the tick labels of the x axis stay visible on exactly the row that
\* gets the x-axis title, the bottom row, and are hidden on every other row.
C8_TickLabelsOnTitleRow ==
    FigureComplete =>
        \A k \in Panels :
            /\ axes[k].ticklabels = axes[k].xlabel
            /\ axes[k].xlabel = (axes[k].slot = 5)

C10_LabelFromOwnChannel ==
    /\ raised.exc # "UnboundLocalError"
    /\ \A k \in AxesOfKind({"seismogram"}) :
          axes[k].ylabel = Lookup(axes[k].channel, Unassigned)

====
